---------------------------- MODULE Spec2Model ----------------------------
(***************************************************************************)
(* tinymalloc: the multi-arena bitmap allocator of src/tinymalloc.c        *)
(* (lines 349-755), as a state machine.                                    *)
(*                                                                         *)
(* Representation.                                                         *)
(*  - A size_t value v is written as the integer r with v = r mod 2^64 and *)
(*    r close to 0: SIZE_MAX is -1, and a difference that wraps below zero *)
(*    is a negative r.  Unsigned comparisons go through ULt / ULe.         *)
(*  - A bitmap is the set of its maximal runs of 1 bits, <<lo, hi>> for    *)
(*    the bits lo .. hi-1.  Bit i of the bitmap is bit i % 64 of word      *)
(*    i / 64, and (little endian) bit i % 8 of byte i / 8.                 *)
(*  - The heap bytes the allocator itself reads are the header words: mem  *)
(*    maps a byte offset in the heap to the size_t stored there; an offset *)
(*    never written reads 0 (a fresh anonymous mapping is zero filled).    *)
(*  - The address space is a row of NumSlots slots of SlotPages pages; an  *)
(*    mmap of at most one slot returns the base of a free slot.            *)
(***************************************************************************)
EXTENDS Integers, Sequences, FiniteSets, TLC

\* ---- program constants ---------------------------------------------------
HEAP_SIZE == 1048576
BLOCK_SIZE == 16
SMALL_ALLOCATION_THRESHOLD == 4 * BLOCK_SIZE
LARGE_ALLOCATION_THRESHOLD == 256 * BLOCK_SIZE
SIZEOF_SIZE_T == 8
SIZEOF_UINT64 == 8
WORD_BITS == 64
PAGE_SIZE == 4096
NULL == 0
SIZEOF_ARENA == 120
SIZE_MAX == -1
MAP_FAILED == -1

\* ---- bounds of the model -------------------------------------------------
NumThreads == 2
NumCpus == 2
MaxOps == 3
MaxSeqOps == 6
MaxBoundaryOps == 4
MaxReuseOps == 9
NumSlots == 12
SlotPages == 1024

Threads == 1 .. NumThreads
Slots == 0 .. (NumSlots - 1)
SlotSize == SlotPages * PAGE_SIZE
MmapBase == PAGE_SIZE
SlotBase(s) == MmapBase + s * SlotSize
SlotOf(addr) == (addr - MmapBase) \div SlotSize

\* The sizes the threads ask for: 0, one block, the tests' 100 bytes, and
\* the two large requests of the boundary tests.
Sizes == {0, 1, 100, HEAP_SIZE \div 2, HEAP_SIZE}
SeqSizes == {0, 1, 100, HEAP_SIZE \div 2}
\* The sizes of the boundary test: one byte, 1 GB, and the two largest sizes,
\* for which size + sizeof(size_t) wraps to 0 and to 7.
BoundarySizes == {1, 1024 * 1024 * 1024, SIZE_MAX - 7, SIZE_MAX}
\* Large requests that take up half a fresh heap: with its header, HEAP_SIZE/2
\* takes one block more than half the heap, HEAP_SIZE/2 - 16 exactly half,
\* and HEAP_SIZE/2 - 24 one block less.
ReuseSizes == {HEAP_SIZE \div 2, HEAP_SIZE \div 2 - 16, HEAP_SIZE \div 2 - 24}
\* A pointer that lies in no mapping (below the first slot).
WildPtr == SIZEOF_SIZE_T

Min(S) == CHOOSE x \in S : \A y \in S : x <= y
Max(S) == CHOOSE x \in S : \A y \in S : x >= y

\* ---- unsigned comparison of size_t values --------------------------------
ULt(a, b) == IF (a < 0) = (b < 0) THEN a < b ELSE b < 0
ULe(a, b) == a = b \/ ULt(a, b)

\* ---- bitmap --------------------------------------------------------------
\* set_bit(i) for every i of lo .. hi-1
SetRange(bits, lo, hi) ==
  IF lo >= hi THEN bits
  ELSE LET touch == {r \in bits : r[1] <= hi /\ lo <= r[2]}
           l == Min({lo} \cup {r[1] : r \in touch})
           h == Max({hi} \cup {r[2] : r \in touch})
       IN (bits \ touch) \cup {<<l, h>>}

\* clear_bit(i) for every i of lo .. hi-1
ClearRange(bits, lo, hi) ==
  IF lo >= hi THEN bits
  ELSE UNION { ( IF r[1] < Min({r[2], lo}) THEN {<<r[1], Min({r[2], lo})>>} ELSE {} )
               \cup
               ( IF Max({r[1], hi}) < r[2] THEN {<<Max({r[1], hi}), r[2]>>} ELSE {} )
             : r \in bits }

\* uint64_t word = ~bitmap[bitmap_index]: the position of the lowest 1 bit of
\* word, that is, of the lowest 0 bit of bitmap[bitmap_index]; WORD_BITS when
\* word == 0.  The runs are maximal, so the bit after a run is a 0 bit.
LowestZero(bits, bitmap_index) ==
  LET lo == bitmap_index * WORD_BITS
      over == {r \in bits : r[1] <= lo /\ lo < r[2]}
      first == IF over = {} THEN lo ELSE (CHOOSE r \in over : TRUE)[2]
  IN IF first < lo + WORD_BITS THEN first - lo ELSE WORD_BITS

\* __builtin_ctzll(word) and __builtin_ffsll(word) of word = ~bitmap[bitmap_index]
ctzll(bits, bitmap_index) == LowestZero(bits, bitmap_index)
ffsll(bits, bitmap_index) ==
  IF LowestZero(bits, bitmap_index) = WORD_BITS THEN 0
  ELSE LowestZero(bits, bitmap_index) + 1


\* ---- the operating system: anonymous mappings ------------------------------
\* maps[s] is the length of the mapping at slot s, 0 when the slot is free.
\* mmap(NULL, len, ...) may fail, or returns a free range: the lowest free
\* slot (a range that was unmapped before is handed out again), or the lowest
\* slot above every mapping.
Candidates(maps) ==
  LET free == {s \in Slots : maps[s] = 0}
      fresh == {s \in free : \A u \in Slots \ free : u < s}
  IN (IF free = {} THEN {} ELSE {Min(free)})
     \cup (IF fresh = {} THEN {} ELSE {Min(fresh)})

mmap(maps, len) ==
  {[addr |-> MAP_FAILED, maps |-> maps]}
  \cup {[addr |-> SlotBase(s), maps |-> [maps EXCEPT ![s] = len]] :
          s \in IF len > 0 /\ len <= SlotSize THEN Candidates(maps) ELSE {}}

\* munmap of an address that is no mapping (NULL, MAP_FAILED) fails and
\* changes nothing.
munmap(maps, addr) ==
  IF addr >= MmapBase /\ SlotOf(addr) \in Slots /\ SlotBase(SlotOf(addr)) = addr
  THEN [maps EXCEPT ![SlotOf(addr)] = 0]
  ELSE maps

\* ---- heap memory: the size_t words the allocator stores --------------------
ReadWord(mem, off) ==
  IF \E w \in mem : w[1] = off THEN (CHOOSE w \in mem : w[1] = off)[2] ELSE 0
WriteWord(mem, off, val) == {w \in mem : w[1] # off} \cup {<<off, val>>}

\* ---- BitmapAllocator ---------------------------------------------------------
\* An arena is a record: heap, bitmap (the two base addresses), heap_size
\* (bytes), bitmap_size (words), bits (the bitmap's content), mem (the heap's
\* header words), ba_allocated_blocks (allocator->allocated_blocks), mutex
\* (arena->mutex: "zeroed" as the table is mapped, "unlocked" once
\* pthread_mutex_init succeeded, or ToString(t) for the thread t that holds
\* it), and
\* allocated_blocks (arena->allocated_blocks).

\* A variant of free_blocks that clears nothing.
keep_blocks(al, start_index, num_blocks) == al

\* A variant of free_blocks whose clear_bit flips the bit (^= instead of &= ~):
\* a run that is all zero becomes all one.
flip_blocks(al, start_index, num_blocks) ==
  [al EXCEPT !.bits =
     IF \A r \in @ : r[2] <= start_index \/ start_index + num_blocks <= r[1]
     THEN SetRange(@, start_index, start_index + num_blocks)
     ELSE ClearRange(@, start_index, start_index + num_blocks),
             !.ba_allocated_blocks = @ - num_blocks]

free_blocks(al, start_index, num_blocks) ==
  [al EXCEPT !.bits = ClearRange(@, start_index, start_index + num_blocks),
             !.ba_allocated_blocks = @ - num_blocks]

\* A variant of the rounding of extend_heap that leaves the size as asked.
NotRounded(size) == size

RoundUpToPage(size) == ((size + PAGE_SIZE - 1) \div PAGE_SIZE) * PAGE_SIZE
BitmapWords(heap_size) == (heap_size \div BLOCK_SIZE + 63) \div 64

\* A variant of the memset of extend_heap whose offset counts words: it zeroes
\* the words old_words .. new_words-1 and nothing else.
ZeroNewWords(bits, old_words, new_words) ==
  ClearRange(bits, WORD_BITS * old_words, WORD_BITS * new_words)

\* memset(new_bitmap + allocator->bitmap_size, 0, (new - old) * 8): new_bitmap
\* is a void *, so the offset is in bytes; byte k holds bits 8k .. 8k+7.
ExtendBitmap(bits, old_words, new_words) ==
  ClearRange(bits, 8 * old_words,
             8 * (old_words + (new_words - old_words) * SIZEOF_UINT64))

\* A variant of extend_heap that stores the new heap_size before it maps
\* anything, and whose first mmap fails.
extend_heap_size_first(al, size, maps) ==
  {[al |-> [al EXCEPT !.heap_size = @ + RoundUpToPage(size)], maps |-> maps,
    ret |-> NULL, failed |-> TRUE]}

\* The outcomes of extend_heap: [al, maps, ret, failed].
extend_heap(al, size, maps) ==
  LET extension_size == RoundUpToPage(size)
      new_heap_size == al.heap_size + extension_size
      new_bitmap_size == BitmapWords(new_heap_size)
      Step3(m2) ==
        UNION { IF m3.addr = MAP_FAILED
                THEN {[al |-> al, maps |-> munmap(m3.maps, m2.addr),
                       ret |-> NULL, failed |-> TRUE]}
                ELSE {[al |-> [al EXCEPT
                                 !.heap = m2.addr,
                                 !.bitmap = m3.addr,
                                 !.heap_size = new_heap_size,
                                 !.bitmap_size = new_bitmap_size,
                                 !.bits = ExtendBitmap(@, al.bitmap_size, new_bitmap_size)],
                       maps |-> munmap(munmap(m3.maps, al.heap), al.bitmap),
                       ret |-> m2.addr + new_heap_size - extension_size,
                       failed |-> FALSE]}
              : m3 \in mmap(m2.maps, new_bitmap_size * SIZEOF_UINT64) }
      Step2(m1) ==
        UNION { IF m2.addr = MAP_FAILED
                THEN {[al |-> al, maps |-> m2.maps, ret |-> NULL, failed |-> TRUE]}
                ELSE Step3(m2)
              : m2 \in mmap(m1.maps, new_heap_size) }
  IN UNION { IF m1.addr = MAP_FAILED
             THEN {[al |-> al, maps |-> m1.maps, ret |-> NULL, failed |-> TRUE]}
             ELSE Step2(m1)
           : m1 \in mmap(maps, extension_size) }

\* The word count the scan of find_free_blocks stops at.
ScanWords(al) == al.bitmap_size \div SIZEOF_UINT64

\* The candidate bit of one word: ctz for small and large requests, ffs - 1
\* for medium ones.
FirstFreeBit(bits, bitmap_index, blocks_needed) ==
  IF blocks_needed <= SMALL_ALLOCATION_THRESHOLD \div BLOCK_SIZE
     \/ blocks_needed >= LARGE_ALLOCATION_THRESHOLD \div BLOCK_SIZE
  THEN ctzll(bits, bitmap_index)
  ELSE ffsll(bits, bitmap_index) - 1

\* A variant of the inner loop that stops after its first turn: it tests the
\* bit start_block only.
FirstBlockFree(bits, start_block, end_block) ==
  \A r \in bits : r[2] <= start_block \/ start_block + 1 <= r[1]

\* for (i = start_block; i < end_block; i++) if (is_bit_set(i)) ... : no 1 bit
\* in start_block .. end_block-1.
EnoughSpace(bits, start_block, end_block) ==
  \A r \in bits : r[2] <= start_block \/ end_block <= r[1]

StartBlock(al, blocks_needed, bitmap_index) ==
  bitmap_index * WORD_BITS + FirstFreeBit(al.bits, bitmap_index, blocks_needed)

\* One turn of the loop of find_free_blocks: whether word != 0 and the run at
\* its candidate bit is inside the heap and free.
Fits(al, blocks_needed, bitmap_index) ==
  /\ LowestZero(al.bits, bitmap_index) # WORD_BITS
  /\ LET start_block == StartBlock(al, blocks_needed, bitmap_index)
         end_block == start_block + blocks_needed
     IN /\ end_block <= al.heap_size \div BLOCK_SIZE
        /\ EnoughSpace(al.bits, start_block, end_block)

\* The loop returns at the first bitmap_index that fits.
find_free_blocks(al, blocks_needed) ==
  LET hits == {w \in 0 .. (ScanWords(al) - 1) : Fits(al, blocks_needed, w)}
  IN IF hits = {} THEN SIZE_MAX ELSE StartBlock(al, blocks_needed, Min(hits))

AlignUp(addr) ==
  ((addr + SIZEOF_SIZE_T - 1) \div SIZEOF_SIZE_T) * SIZEOF_SIZE_T

\* A variant of allocate_blocks with a 4-byte header.
allocate_unaligned(al, start_block, blocks_needed, size) ==
  LET allocated_memory == AlignUp(al.heap + start_block * BLOCK_SIZE)
  IN [al |-> [al EXCEPT
                !.bits = SetRange(@, start_block, start_block + blocks_needed),
                !.ba_allocated_blocks = @ + blocks_needed,
                !.mem = WriteWord(@, allocated_memory - al.heap, size)],
      ret |-> allocated_memory + 4]

\* allocate_blocks: [al, ret]
allocate_blocks(al, start_block, blocks_needed, size) ==
  LET allocated_memory == AlignUp(al.heap + start_block * BLOCK_SIZE)
  IN [al |-> [al EXCEPT
                !.bits = SetRange(@, start_block, start_block + blocks_needed),
                !.ba_allocated_blocks = @ + blocks_needed,
                !.mem = WriteWord(@, allocated_memory - al.heap, size)],
      ret |-> allocated_memory + SIZEOF_SIZE_T]

BlocksNeeded(size) == (size + SIZEOF_SIZE_T + BLOCK_SIZE - 1) \div BLOCK_SIZE

\* The outcomes of try_allocate: [al, maps, ret, failed, start, blocks].
try_allocate(al, size, maps) ==
  LET blocks_needed == BlocksNeeded(size)
      start_block == find_free_blocks(al, blocks_needed)
      Done(a, m, s, f) ==
        LET r == allocate_blocks(a, s, blocks_needed, size)
        IN [al |-> r.al, maps |-> m, ret |-> r.ret, failed |-> f,
            start |-> s, blocks |-> blocks_needed]
      Fail(a, m, f) ==
        [al |-> a, maps |-> m, ret |-> NULL, failed |-> f, start |-> 0, blocks |-> 0]
  IN IF start_block = SIZE_MAX
     THEN LET extension_size ==
                IF blocks_needed * BLOCK_SIZE > al.heap_size \div 4
                THEN blocks_needed * BLOCK_SIZE
                ELSE al.heap_size \div 4
          IN { IF e.ret = NULL THEN Fail(e.al, e.maps, e.failed)
               ELSE LET again == find_free_blocks(e.al, blocks_needed)
                    IN IF again = SIZE_MAX THEN Fail(e.al, e.maps, e.failed)
                       ELSE Done(e.al, e.maps, again, e.failed)
             : e \in extend_heap(al, extension_size, maps) }
     ELSE {Done(al, maps, start_block, FALSE)}


\* ---- state -------------------------------------------------------------------
VARIABLES
  arenas,              \* static Arena *arenas: NULL, MAP_FAILED or the table's address
  table,               \* the content of the arena table: index -> arena record
  num_arenas,
  arenas_initialized,
  next_arena_index,
  malloc_mutex,        \* 0, or the thread that holds it
  arena_index_mutex,   \* "unlocked" or "locked"
  thread_arena_index,  \* _Thread_local, per thread, -1 when unassigned
  maps,                \* the process's anonymous mappings
  pc, arg,             \* per thread: where it is and the argument of its call
  live,                \* ghost: allocations returned by tinymalloc, not yet passed to tinyfree
  ops,                 \* ghost: calls made so far
  limit,               \* ghost: the number of calls the run makes
  log,                 \* ghost: the last calls that returned, oldest first
  crashed              \* the process dereferenced an invalid arena table

vars == <<arenas, table, num_arenas, arenas_initialized, next_arena_index,
          malloc_mutex, arena_index_mutex, thread_arena_index, maps, pc, arg,
          live, ops, limit, log, crashed>>

\* what tinymalloc and tinyfree own
alloc_state == <<arenas, table, num_arenas, arenas_initialized, next_arena_index,
                 malloc_mutex, arena_index_mutex, thread_arena_index, maps>>

LogLen == 3
Logged(entry) == IF Len(log) < LogLen THEN Append(log, entry)
                 ELSE Append(Tail(log), entry)

ZeroArena == [heap |-> NULL, bitmap |-> NULL, heap_size |-> 0, bitmap_size |-> 0,
              bits |-> {}, mem |-> {}, ba_allocated_blocks |-> 0,
              mutex |-> "zeroed", allocated_blocks |-> 0]
\* The table is a sequence: arenas[i] is table[i + 1].
NoTable == << >>

\* memset(arenas, 0, num_arenas * sizeof(Arena))
RECURSIVE ZeroTable(_)
ZeroTable(n) == IF n = 0 THEN NoTable ELSE Append(ZeroTable(n - 1), ZeroArena)

Start ==
  /\ arenas = NULL
  /\ table = NoTable
  /\ num_arenas = 0
  /\ arenas_initialized = FALSE
  /\ next_arena_index = 0
  /\ malloc_mutex = 0
  /\ arena_index_mutex = "unlocked"
  /\ thread_arena_index = [t \in Threads |-> -1]
  /\ maps = [s \in Slots |-> 0]
  /\ pc = [t \in Threads |-> "idle"]
  /\ arg = [t \in Threads |-> 0]
  /\ live = {}
  /\ ops = 0
  /\ log = << >>
  /\ crashed = FALSE

Init == Start /\ limit = MaxOps

get_num_cpus == NumCpus

\* A variant of update_arena_usage that leaves the counter alone.
usage_not_counted(ar, blocks) == ar

update_arena_usage(ar, blocks) ==
  [ar EXCEPT !.allocated_blocks = @ + blocks]

\* ---- initialization ------------------------------------------------------------
RECURSIVE UnmapArenas(_, _, _, _)
UnmapArenas(tbl, n, i, m) ==
  IF i >= n THEN m
  ELSE UnmapArenas(tbl, n, i + 1,
         LET m1 == IF tbl[i + 1].heap # NULL THEN munmap(m, tbl[i + 1].heap) ELSE m
         IN IF tbl[i + 1].bitmap # NULL THEN munmap(m1, tbl[i + 1].bitmap) ELSE m1)

\* addr is the base of a mapping of m
IsMapping(m, addr) ==
  /\ addr >= MmapBase /\ SlotOf(addr) \in Slots
  /\ SlotBase(SlotOf(addr)) = addr /\ m[SlotOf(addr)] # 0

\* The addresses the loop of cleanup_memory passes to munmap.
Unmapped(tbl, n) ==
  {tbl[i].heap : i \in {j \in 1 .. n : tbl[j].heap # NULL}}
  \cup {tbl[i].bitmap : i \in {j \in 1 .. n : tbl[j].bitmap # NULL}}

\* cleanup_memory: the globals and the mappings it leaves, and the addresses
\* it passed to munmap that are no mapping (invalid)
cleanup_memory(ptr, tbl, n, m) ==
  [arenas |-> NULL, table |-> NoTable, num_arenas |-> 0,
   maps |-> IF ptr # NULL THEN munmap(UnmapArenas(tbl, n, 0, m), ptr) ELSE m,
   initialized |-> FALSE,
   invalid |-> IF ptr # NULL THEN {a \in Unmapped(tbl, n) : ~IsMapping(m, a)}
               ELSE {}]

\* An outcome of init_memory: the globals and mappings st it leaves, its result
\* ok, and the call that failed on the way: "mmap", "pthread_mutex_init" or
\* "none".
Outcome(st, ok, failed) ==
  [arenas |-> st.arenas, table |-> st.table, num_arenas |-> st.num_arenas,
   maps |-> st.maps, initialized |-> st.initialized, invalid |-> st.invalid,
   ok |-> ok, failed |-> failed]

\* A variant of pthread_mutex_init that leaves the mutex as it was.
mutex_untouched(mutex) == mutex
\* pthread_mutex_init(&arena->mutex, NULL) returning 0
pthread_mutex_init(mutex) == "unlocked"

\* The outcomes of the loop of init_memory from arena i on.
RECURSIVE InitArenas(_, _, _, _, _)
InitArenas(ptr, tbl, n, i, m) ==
  IF i >= n
  THEN {Outcome([arenas |-> ptr, table |-> tbl, num_arenas |-> n, maps |-> m,
                 initialized |-> TRUE, invalid |-> {}], TRUE, "none")}
  ELSE UNION {
    IF mh.addr = MAP_FAILED
    THEN {Outcome(cleanup_memory(ptr, [tbl EXCEPT ![i + 1].heap_size = HEAP_SIZE,
                                                   ![i + 1].heap = MAP_FAILED],
                                 n, mh.maps), FALSE, "mmap")}
    ELSE UNION {
      LET a == [tbl[i + 1] EXCEPT !.heap_size = HEAP_SIZE, !.heap = mh.addr,
                              !.bitmap_size = BitmapWords(HEAP_SIZE),
                              !.bitmap = mb.addr]
      IN IF mb.addr = MAP_FAILED
         THEN {Outcome(cleanup_memory(ptr, [tbl EXCEPT ![i + 1] = a], n, mb.maps),
                       FALSE, "mmap")}
         ELSE \* pthread_mutex_init(&arena->mutex, NULL) != 0, or 0
              {Outcome(cleanup_memory(ptr, [tbl EXCEPT ![i + 1] = a], n, mb.maps),
                       FALSE, "pthread_mutex_init")}
              \cup InitArenas(ptr, [tbl EXCEPT ![i + 1] =
                                             [a EXCEPT !.mutex = pthread_mutex_init(@)]],
                              n, i + 1, mb.maps)
      : mb \in mmap(mh.maps, BitmapWords(HEAP_SIZE) * SIZEOF_UINT64) }
    : mh \in mmap(m, HEAP_SIZE) }

\* The outcomes of init_memory.
init_memory(m) ==
  LET n == get_num_cpus
  IN UNION {
       IF mt.addr = MAP_FAILED
       THEN {Outcome([arenas |-> MAP_FAILED, table |-> NoTable, num_arenas |-> n,
                      maps |-> mt.maps, initialized |-> FALSE, invalid |-> {}],
                     FALSE, "mmap")}
       ELSE InitArenas(mt.addr, ZeroTable(n), n, 0, mt.maps)
       : mt \in mmap(m, n * SIZEOF_ARENA) }

\* A variant of initialize_if_needed that does not test arenas_initialized.
initialize_always == init_memory(maps)

\* The outcomes of initialize_if_needed.
initialize_if_needed ==
  IF ~arenas_initialized
  THEN init_memory(maps)
  ELSE {Outcome([arenas |-> arenas, table |-> table, num_arenas |-> num_arenas,
                 maps |-> maps, initialized |-> TRUE, invalid |-> {}],
                TRUE, "none")}

\* ---- arena selection -------------------------------------------------------------
RECURSIVE LeastUsed(_, _, _, _, _, _)
LeastUsed(tbl, n, size, i, suitable_arena, min_usage) ==
  IF i >= n THEN suitable_arena
  ELSE LET usage == tbl[i + 1].allocated_blocks * BLOCK_SIZE
       IN IF ULt(usage, min_usage) /\ ULe(size, tbl[i + 1].heap_size - usage)
          THEN LeastUsed(tbl, n, size, i + 1, i, usage)
          ELSE LeastUsed(tbl, n, size, i + 1, suitable_arena, min_usage)

\* A variant of select_arena that scans for the least used arena whatever the
\* size.
select_least_used(size, tai, nai, tbl, n) ==
  [arena |-> LeastUsed(tbl, n, size, 0, 0, SIZE_MAX),
   thread_arena_index |-> IF tai = -1 THEN nai ELSE tai,
   next_arena_index |-> IF tai = -1 THEN (nai + 1) % n ELSE nai,
   arena_index_mutex |-> "unlocked"]

\* A variant of select_arena that leaves next_arena_index as it is.
select_without_advance(size, tai, nai, tbl, n) ==
  [arena |-> IF ULe(size, LARGE_ALLOCATION_THRESHOLD)
             THEN (IF tai = -1 THEN nai ELSE tai)
             ELSE LeastUsed(tbl, n, size, 0, 0, SIZE_MAX),
   thread_arena_index |-> IF tai = -1 THEN nai ELSE tai,
   next_arena_index |-> nai,
   arena_index_mutex |-> "unlocked"]

\* A variant of select_arena that returns from the first assignment without
\* pthread_mutex_unlock(&arena_index_mutex).
select_without_unlock(size, tai, nai, tbl, n) ==
  [arena |-> IF ULe(size, LARGE_ALLOCATION_THRESHOLD)
             THEN (IF tai = -1 THEN nai ELSE tai)
             ELSE LeastUsed(tbl, n, size, 0, 0, SIZE_MAX),
   thread_arena_index |-> IF tai = -1 THEN nai ELSE tai,
   next_arena_index |-> IF tai = -1 THEN (nai + 1) % n ELSE nai,
   arena_index_mutex |-> IF tai = -1 THEN "locked" ELSE "unlocked"]

\* select_arena: [arena, thread_arena_index, next_arena_index,
\* arena_index_mutex].  The first assignment locks arena_index_mutex and
\* unlocks it before the size is looked at; nobody else holds it, because
\* select_arena runs under malloc_mutex.
select_arena(size, tai, nai, tbl, n) ==
  LET idx == IF tai = -1 THEN nai ELSE tai
      nxt == IF tai = -1 THEN (nai + 1) % n ELSE nai
  IN [arena |-> IF ULe(size, LARGE_ALLOCATION_THRESHOLD) THEN idx
                ELSE LeastUsed(tbl, n, size, 0, 0, SIZE_MAX),
      thread_arena_index |-> idx,
      next_arena_index |-> nxt,
      arena_index_mutex |-> "unlocked"]

\* ghost: the lowest identity no live allocation carries
FreshId == Min((0 .. Cardinality(live)) \ {l.id : l \in live})

\* ---- tinymalloc --------------------------------------------------------------------
\* A variant of pthread_mutex_lock that does not wait for the holder.
MutexAny(mutex) == TRUE
\* pthread_mutex_lock(&mutex) returns once no thread holds the mutex.
MutexFree(mutex) == mutex = 0

\* A variant of the size test of tinymalloc that lets every size through.
NoSize(size) == FALSE
IsZeroSize(size) == size = 0

\* if (size == 0) return NULL;
MallocZero(t, size) ==
  /\ ~crashed /\ pc[t] = "idle" /\ ops < limit
  /\ IsZeroSize(size)
  /\ ops' = ops + 1
  /\ log' = Logged([op |-> "malloc", t |-> t, arg |-> size, ret |-> NULL,
                    arena |-> -1, failed |-> "none", invalid |-> {}])
  /\ UNCHANGED <<alloc_state, pc, arg, live, limit, crashed>>

\* pthread_mutex_lock(&malloc_mutex);
MallocLock(t, size) ==
  /\ ~crashed /\ pc[t] = "idle" /\ ops < limit
  /\ ~IsZeroSize(size)
  /\ MutexFree(malloc_mutex)
  /\ malloc_mutex' = t
  /\ pc' = [pc EXCEPT ![t] = "malloc"]
  /\ arg' = [arg EXCEPT ![t] = size]
  /\ ops' = ops + 1
  /\ UNCHANGED <<arenas, table, num_arenas, arenas_initialized, next_arena_index,
                 arena_index_mutex, thread_arena_index, maps, live, limit, log,
                 crashed>>

\* initialize_if_needed failed: unlock and return NULL
MallocInitFails(t) ==
  /\ ~crashed /\ pc[t] = "malloc"
  /\ \E i \in initialize_if_needed :
       /\ ~i.ok
       /\ arenas' = i.arenas /\ table' = i.table /\ num_arenas' = i.num_arenas
       /\ arenas_initialized' = i.initialized /\ maps' = i.maps
       /\ log' = Logged([op |-> "malloc", t |-> t, arg |-> arg[t], ret |-> NULL,
                         arena |-> -1, failed |-> i.failed,
                         invalid |-> i.invalid])
  /\ malloc_mutex' = 0
  /\ pc' = [pc EXCEPT ![t] = "idle"]
  /\ arg' = [arg EXCEPT ![t] = 0]
  /\ UNCHANGED <<next_arena_index, arena_index_mutex, thread_arena_index, live,
                 ops, limit, crashed>>

\* allocate_memory under the lock, unlock, return
MallocBody(t) ==
  /\ ~crashed /\ pc[t] = "malloc"
  /\ \E i \in initialize_if_needed :
       /\ i.ok
       /\ LET size == arg[t]
              sel == select_arena(size, thread_arena_index[t], next_arena_index,
                                  i.table, i.num_arenas)
          IN \E o \in try_allocate(i.table[sel.arena + 1], size, i.maps) :
               /\ arenas' = i.arenas
               /\ num_arenas' = i.num_arenas
               /\ arenas_initialized' = TRUE
               /\ table' = [i.table EXCEPT ![sel.arena + 1] =
                              IF o.ret # NULL
                              THEN update_arena_usage(o.al, BlocksNeeded(size))
                              ELSE o.al]
               /\ maps' = o.maps
               /\ thread_arena_index' =
                    [thread_arena_index EXCEPT ![t] = sel.thread_arena_index]
               /\ next_arena_index' = sel.next_arena_index
               /\ arena_index_mutex' = sel.arena_index_mutex
               /\ live' = IF o.ret = NULL THEN live
                          ELSE live \cup {[ptr |-> o.ret, size |-> size,
                                           arena |-> sel.arena, start |-> o.start,
                                           blocks |-> o.blocks, id |-> FreshId]}
               /\ log' = Logged([op |-> "malloc", t |-> t, arg |-> size,
                                 ret |-> o.ret, arena |-> sel.arena,
                                 failed |-> IF o.failed THEN "mmap" ELSE "none",
                                 invalid |-> {}])
  /\ malloc_mutex' = 0
  /\ pc' = [pc EXCEPT ![t] = "idle"]
  /\ arg' = [arg EXCEPT ![t] = 0]
  /\ UNCHANGED <<ops, limit, crashed>>


\* ---- tinyfree ------------------------------------------------------------------------
\* The index of the first arena whose heap range holds ptr, -1 for NULL.
RECURSIVE FindArena(_, _, _, _)
FindArena(tbl, n, ptr, i) ==
  IF i >= n THEN -1
  ELSE IF ptr >= tbl[i + 1].heap /\ ptr < tbl[i + 1].heap + tbl[i + 1].heap_size THEN i
       ELSE FindArena(tbl, n, ptr, i + 1)

find_arena_for_pointer(ptr) == FindArena(table, num_arenas, ptr, 0)

\* C's integer division truncates toward zero.
CDiv(a, b) == IF a >= 0 THEN a \div b ELSE -((-a) \div b)

\* actual_start = ptr - sizeof(size_t) lies below the heap: ptr is one of the
\* first sizeof(size_t) bytes of the heap.
HeaderOutside(ar, ptr) == ptr - SIZEOF_SIZE_T < ar.heap

\* What a read of the word below the heap may yield when other memory of the
\* process is mapped there: zero, a size that fits the heap and one that does
\* not.
StrayWords == {0, HEAP_SIZE \div 2, 4 * HEAP_SIZE}

\* size_t size = *(size_t *)actual_start: the header word of the heap, or,
\* below the heap, whatever lies there.
HeaderWords(ar, ptr) ==
  IF HeaderOutside(ar, ptr) THEN StrayWords
  ELSE {ReadWord(ar.mem, ptr - SIZEOF_SIZE_T - ar.heap)}

\* deallocate_memory, given the value the header read yields
deallocate_memory(ar, ptr, size) ==
  LET actual_start == ptr - SIZEOF_SIZE_T
      block_index == CDiv(actual_start - ar.heap, BLOCK_SIZE)
      blocks_to_free == BlocksNeeded(size)
  IN IF ULe(block_index + blocks_to_free, ar.heap_size \div BLOCK_SIZE)
     THEN free_blocks(ar, block_index, blocks_to_free)
     ELSE ar

\* A variant of the NULL test of tinyfree that lets every pointer through.
NoPtr(ptr) == FALSE
IsNullPtr(ptr) == ptr = NULL

\* if (ptr == NULL) return;
FreeNull(t, ptr) ==
  /\ ~crashed /\ pc[t] = "idle" /\ ops < limit
  /\ IsNullPtr(ptr)
  /\ ops' = ops + 1
  /\ log' = Logged([op |-> "free", t |-> t, arg |-> ptr, ret |-> NULL,
                    arena |-> -1, failed |-> "none", invalid |-> {}])
  /\ UNCHANGED <<alloc_state, pc, arg, live, limit, crashed>>

\* pthread_mutex_lock(&malloc_mutex);
FreeLock(t, ptr) ==
  /\ ~crashed /\ pc[t] = "idle" /\ ops < limit
  /\ ~IsNullPtr(ptr)
  /\ MutexFree(malloc_mutex)
  /\ malloc_mutex' = t
  /\ pc' = [pc EXCEPT ![t] = "free"]
  /\ arg' = [arg EXCEPT ![t] = ptr]
  /\ ops' = ops + 1
  /\ UNCHANGED <<arenas, table, num_arenas, arenas_initialized, next_arena_index,
                 arena_index_mutex, thread_arena_index, maps, live, limit, log,
                 crashed>>

\* find_arena_for_pointer reads arenas[i] through an arena table pointer that is
\* MAP_FAILED: an invalid access
FreeCrash(t) ==
  /\ ~crashed /\ pc[t] = "free"
  /\ arenas = MAP_FAILED /\ num_arenas > 0
  /\ crashed' = TRUE
  /\ UNCHANGED <<alloc_state, pc, arg, live, ops, limit, log>>

\* deallocate_memory reads the word below the heap and nothing is mapped
\* there: an invalid access.  (The slots of this address space leave gaps
\* that the process's mappings need not have, so FreeBody covers the read
\* that succeeds.)
FreeHeaderCrash(t) ==
  /\ ~crashed /\ pc[t] = "free"
  /\ ~(arenas = MAP_FAILED /\ num_arenas > 0)
  /\ find_arena_for_pointer(arg[t]) # -1
  /\ HeaderOutside(table[find_arena_for_pointer(arg[t]) + 1], arg[t])
  /\ crashed' = TRUE
  /\ UNCHANGED <<alloc_state, pc, arg, live, ops, limit, log>>

\* The allocation a tinyfree(ptr) ends, if ptr is a live pointer.
Released(ptr) ==
  IF \E l \in live : l.ptr = ptr
  THEN {CHOOSE l \in live : l.ptr = ptr /\ \A k \in live : k.ptr = ptr => l.id <= k.id}
  ELSE {}

\* the rest of tinyfree under the lock, unlock, return
FreeBody(t) ==
  /\ ~crashed /\ pc[t] = "free"
  /\ ~(arenas = MAP_FAILED /\ num_arenas > 0)
  /\ LET ptr == arg[t]
         a == find_arena_for_pointer(ptr)
     IN \E size \in (IF a = -1 THEN {0} ELSE HeaderWords(table[a + 1], ptr)) :
        /\ table' = IF a = -1 THEN table
                    ELSE [table EXCEPT ![a + 1] =
                            deallocate_memory(table[a + 1], ptr, size)]
        /\ live' = live \ Released(ptr)
        /\ log' = Logged([op |-> "free", t |-> t, arg |-> ptr, ret |-> NULL,
                          arena |-> a, failed |-> "none",
                          invalid |-> IF a # -1 /\ HeaderOutside(table[a + 1], ptr)
                                      THEN {ptr - SIZEOF_SIZE_T} ELSE {}])
  /\ malloc_mutex' = 0
  /\ pc' = [pc EXCEPT ![t] = "idle"]
  /\ arg' = [arg EXCEPT ![t] = 0]
  /\ UNCHANGED <<arenas, num_arenas, arenas_initialized, next_arena_index,
                 arena_index_mutex, thread_arena_index, maps, ops, limit, crashed>>

\* ---- the program ---------------------------------------------------------------------
\* the pointers a thread may pass to tinyfree: NULL, a pointer owned by no
\* arena, and every live pointer
FreeArgs == {NULL, WildPtr} \cup {l.ptr : l \in live}

Next ==
  \E t \in Threads :
    \/ \E size \in Sizes : MallocZero(t, size)
    \/ \E size \in Sizes : MallocLock(t, size)
    \/ MallocInitFails(t)
    \/ MallocBody(t)
    \/ \E ptr \in FreeArgs : FreeNull(t, ptr)
    \/ \E ptr \in FreeArgs : FreeLock(t, ptr)
    \/ FreeCrash(t)
    \/ FreeBody(t)

Spec == Init /\ [][Next]_vars

\* A thread that holds malloc_mutex runs on: the body of its call is taken
\* eventually.  For tinyfree this is weak fairness of FreeCrash and FreeBody.
\* For tinymalloc it is weak fairness of MallocInitFails(t) \/ MallocBody(t),
\* written out: one of the two is enabled exactly while t is past the lock of
\* tinymalloc (initialize_if_needed always has an outcome, and so has
\* try_allocate), and a step is one of the two exactly if it takes t from
\* there back to its caller.
InMalloc(t) == pc[t] = "malloc" /\ ~crashed
MallocReturns(t) == InMalloc(t) /\ pc'[t] = "idle"
Fairness ==
  \A t \in Threads :
    /\ WF_vars(FreeCrash(t))
    /\ WF_vars(FreeBody(t))
    /\ ([]<>(~InMalloc(t))) \/ ([]<><<MallocReturns(t)>>_vars)

FairSpec == Init /\ [][Next]_vars /\ Fairness

\* A single-threaded run: thread 1 makes every call, the sizes are those of
\* SeqSizes, and the run is MaxSeqOps calls long.
InitSeq == Start /\ limit = MaxSeqOps

NextSeq ==
  \/ \E size \in SeqSizes : MallocZero(1, size)
  \/ \E size \in SeqSizes : MallocLock(1, size)
  \/ MallocInitFails(1)
  \/ MallocBody(1)
  \/ \E ptr \in FreeArgs : FreeNull(1, ptr)
  \/ \E ptr \in FreeArgs : FreeLock(1, ptr)
  \/ FreeCrash(1)
  \/ FreeBody(1)

SpecSeq == InitSeq /\ [][NextSeq]_vars

\* The boundary test: one thread asks for the sizes of BoundarySizes and frees
\* what it got.
InitBoundary == Start /\ limit = MaxBoundaryOps

LivePtrs == {l.ptr : l \in live}

NextBoundary ==
  \/ \E size \in BoundarySizes : MallocLock(1, size)
  \/ MallocInitFails(1)
  \/ MallocBody(1)
  \/ \E ptr \in LivePtrs : FreeLock(1, ptr)
  \/ FreeBody(1)

SpecBoundary == InitBoundary /\ [][NextBoundary]_vars

\* A thread that frees each pointer before it asks for the next:
\* ptr = tinymalloc(size); tinyfree(ptr); and so on, with the sizes of
\* ReuseSizes.
InitReuse == Start /\ limit = MaxReuseOps

NextReuse ==
  \/ \E size \in ReuseSizes : live = {} /\ MallocLock(1, size)
  \/ MallocInitFails(1)
  \/ MallocBody(1)
  \/ \E ptr \in LivePtrs : FreeLock(1, ptr)
  \/ FreeBody(1)

SpecReuse == InitReuse /\ [][NextReuse]_vars

\* ---- the calls that returned -----------------------------------------------------------
\* the most recent call that returned, and the ones before it
Last == log[Len(log)]
Before(k) == log[Len(log) - k]

\* the number of calls that have returned
Returns == ops - Cardinality({t \in Threads : pc[t] # "idle"})

\* p = tinymalloc(s) returned non-null, the next call was tinyfree(p), and the
\* call after that, the most recent one, was a tinymalloc; all by one thread.
MallocFreeMalloc ==
  /\ Len(log) >= 3
  /\ Before(2).op = "malloc" /\ Before(2).ret # NULL
  /\ Before(1).op = "free" /\ Before(1).arg = Before(2).ret
  /\ Last.op = "malloc"
  /\ Before(1).t = Before(2).t /\ Last.t = Before(2).t

\* ptr lies in the current range [heap, heap + heap_size) of no arena
InNoArena(ptr) ==
  \A i \in 1 .. Len(table) :
    ~(table[i].heap <= ptr /\ ptr < table[i].heap + table[i].heap_size)

\* block b of arena i lies in the block run of a live allocation
Covered(i, b) ==
  \E l \in live : l.arena = i /\ l.start <= b /\ b < l.start + l.blocks

\* ---- properties ----------------------------------------------------------------------

\* C1: any two distinct live allocations (p1,s1), (p2,s2) occupy disjoint byte
\* ranges [p1,p1+s1) and [p2,p2+s2), also after a heap was grown.
C1_LiveRangesDisjoint ==
  \A a, b \in live :
    a # b => (a.ptr + a.size <= b.ptr \/ b.ptr + b.size <= a.ptr)

\* C2: in every arena a bitmap bit is 1 if and only if its block lies in the
\* block run of a live allocation of that arena.  The runs of 1 bits are
\* maximal, so a live run is all ones iff one run of bits holds it, and a run
\* of bits is covered iff its first bit is and so is every bit that follows
\* the end of a live run inside it.
C2_BitmapMatchesLive ==
  \A i \in 1 .. Len(table) :
    /\ \A l \in live :
         l.arena = i - 1 =>
           \E r \in table[i].bits : r[1] <= l.start /\ l.start + l.blocks <= r[2]
    /\ \A r \in table[i].bits :
         /\ Covered(i - 1, r[1])
         /\ \A l \in live :
              (l.arena = i - 1 /\ r[1] < l.start + l.blocks
                 /\ l.start + l.blocks < r[2])
              => Covered(i - 1, l.start + l.blocks)

\* C3 as stated: a tinymalloc(size), size > 0, during which no mmap call fails
\* returns a non-null pointer.
C3_NullOnlyIfMmapFailed ==
  \A k \in 1 .. Len(log) :
    (log[k].op = "malloc" /\ log[k].arg # 0 /\ log[k].failed # "mmap")
      => log[k].ret # NULL

\* C3: a tinymalloc(size), size > 0, during which neither an mmap call nor a
\* pthread_mutex_init call fails returns a non-null pointer; a request that does
\* not fit the heap grows it and then succeeds.
C3_NullOnlyIfCallFailed ==
  \A k \in 1 .. Len(log) :
    (log[k].op = "malloc" /\ log[k].arg # 0 /\ log[k].failed = "none")
      => log[k].ret # NULL

\* tinymalloc(HEAP_SIZE) grew the heap of its arena and returned a pointer
C3_GrownAndServed ==
  /\ log # << >>
  /\ Last.op = "malloc" /\ Last.arg = HEAP_SIZE /\ Last.failed = "none"
  /\ Last.ret # NULL
  /\ table[Last.arena + 1].heap_size > HEAP_SIZE

\* C4: in a single-threaded run, once every pointer tinymalloc returned has
\* been passed to tinyfree, every arena's bitmap is all-zero.
C4_AllFreedBitmapZero ==
  (live = {} /\ pc[1] = "idle")
    => \A i \in 1 .. Len(table) : table[i].bits = {}

C6_SameSizeReturnsSame ==
  (MallocFreeMalloc /\ Last.arg = Before(2).arg) => Last.ret = Before(2).ret

\* C7: tinymalloc(0) returns NULL, acquires no mutex and leaves the allocator
\* state unchanged: no thread is ever past the lock with size 0, and the step
\* in which a tinymalloc(0) returns changes none of the allocator's variables.
C7_ZeroSizeStep ==
  /\ \A t \in Threads : pc'[t] = "malloc" => arg'[t] # 0
  /\ (Returns' = Returns + 1 /\ Last'.op = "malloc" /\ Last'.arg = 0)
       => (Last'.ret = NULL /\ UNCHANGED alloc_state)

C7_MallocZeroNoEffect == [][C7_ZeroSizeStep]_vars

\* tinymalloc(0) returned NULL before any initialization
C7_ZeroReturned ==
  /\ log # << >>
  /\ Last.op = "malloc" /\ Last.arg = 0 /\ Last.ret = NULL
  /\ ~arenas_initialized /\ arenas = NULL

\* C8: tinyfree(NULL) returns normally without acquiring a mutex and leaves the
\* allocator state unchanged: no thread is ever past the lock with NULL, and
\* the step in which a tinyfree(NULL) returns changes none of the allocator's
\* variables.
C8_NullFreeStep ==
  /\ \A t \in Threads : pc'[t] = "free" => arg'[t] # NULL
  /\ (Returns' = Returns + 1 /\ Last'.op = "free" /\ Last'.arg = NULL)
       => (UNCHANGED alloc_state /\ ~crashed')

C8_FreeNullNoEffect == [][C8_NullFreeStep]_vars

\* tinyfree(NULL) returned while an allocation was live
C8_NullFreed ==
  /\ log # << >>
  /\ Last.op = "free" /\ Last.arg = NULL
  /\ arenas_initialized /\ live # {}

\* C9: tinyfree(ptr), ptr non-null and in no arena's current range, is a silent
\* no-op: the thread's step returns, leaves every arena as it was and releases
\* malloc_mutex.
C9_UnknownFreeStep ==
  \A t \in Threads :
    (pc[t] = "free" /\ InNoArena(arg[t]) /\ (pc'[t] # pc[t] \/ crashed' # crashed))
      => /\ pc'[t] = "idle" /\ ~crashed'
         /\ table' = table
         /\ malloc_mutex' = 0

C9_UnknownFreeNoEffect == [][C9_UnknownFreeStep]_vars

\* C10: every non-null pointer tinymalloc returned is a multiple of
\* sizeof(size_t).
C10_ResultAligned ==
  \A k \in 1 .. Len(log) :
    (log[k].op = "malloc" /\ log[k].ret # NULL)
      => log[k].ret % SIZEOF_SIZE_T = 0

\* tinymalloc returned a block other than the first of its heap
C10_LaterBlockReturned ==
  /\ log # << >>
  /\ Last.op = "malloc" /\ Last.ret # NULL
  /\ \E l \in live : l.ptr = Last.ret /\ l.start > 0

\* C11: for every size of the unsigned word range, also one for which
\* size + sizeof(size_t) wraps, a non-null p = tinymalloc(size) has the whole
\* range [p, p+size) inside the block run reserved for the allocation.  (A
\* size written as a negative number is 2^63 or more, beyond every run.)
C11_SizeFitsRun ==
  (log # << >> /\ Last.op = "malloc" /\ Last.ret # NULL)
    => \A l \in live :
         (l.ptr = Last.ret /\ l.size = Last.arg /\ l.arena = Last.arena)
           => LET run == table[l.arena + 1].heap + l.start * BLOCK_SIZE
              IN /\ run <= l.ptr
                 /\ l.size >= 0
                 /\ l.ptr + l.size <= run + l.blocks * BLOCK_SIZE

\* C12: the allocator is deadlock-free: under fair scheduling every tinymalloc
\* and tinyfree call of every thread eventually returns.
C12_EveryCallReturns ==
  \A t \in Threads : (pc[t] # "idle") ~> (pc[t] = "idle")

\* the thread whose call reaches its unlock in this step
Unlocks(t) == pc[t] # "idle" /\ pc'[t] = "idle"

\* C13 as stated: a step of tinymalloc or tinyfree that reads or writes an
\* arena's bitmap, heap pointer, heap size or allocated_blocks is made by a
\* thread that holds that arena's own mutex.
C13_OwnMutexStep ==
  \A i \in 1 .. Len(table) :
    (Len(table') = Len(table) /\ table'[i] # table[i])
      => \E t \in Threads : Unlocks(t) /\ table[i].mutex = ToString(t)

C13_ArenaUnderOwnMutex == [][C13_OwnMutexStep]_vars

\* C13: a step of tinymalloc or tinyfree that changes an arena's bitmap, heap
\* pointer, heap size or allocated_blocks is made by the thread that holds
\* malloc_mutex; the arenas' own mutexes are created by the initialization and
\* no call ever acquires one.
C13_GlobalMutexStep ==
  /\ (table' # table) => \E t \in Threads : Unlocks(t) /\ malloc_mutex = t
  /\ \A i \in 1 .. Len(table') : table'[i].mutex = "unlocked"

C13_ArenaUnderGlobalMutex == [][C13_GlobalMutexStep]_vars

\* allocations of both arenas are live, made under malloc_mutex alone
C13_BothArenasServed ==
  /\ \E a, b \in live : a.arena # b.arena
  /\ \A i \in 1 .. Len(table) : table[i].bits # {} /\ table[i].mutex = "unlocked"

\* C14: at most one thread at a time is between the lock and the unlock of
\* malloc_mutex, that thread holds malloc_mutex, and every step that changes the
\* arena table pointer, its length, an arena or the initialized flag is a step
\* of the thread that holds malloc_mutex.
C14_GlobalLockStep ==
  /\ Cardinality({t \in Threads : pc'[t] # "idle"}) <= 1
  /\ \A t \in Threads : pc'[t] # "idle" => malloc_mutex' = t
  /\ (<<arenas, num_arenas, table, arenas_initialized>>'
        # <<arenas, num_arenas, table, arenas_initialized>>)
       => \E t \in Threads : pc[t] # "idle" /\ malloc_mutex = t /\ Unlocks(t)

C14_OneThreadInside == [][C14_GlobalLockStep]_vars

\* a thread is between lock and unlock after the other thread's allocation
C14_SecondThreadInside ==
  \E t \in Threads :
    /\ pc[t] # "idle" /\ malloc_mutex = t
    /\ arenas_initialized
    /\ \E k \in 1 .. Len(log) : log[k].t # t /\ log[k].ret # NULL

\* C15: the arena table is created by exactly one successful initialization:
\* once arenas_initialized is true it stays true, and the arena table pointer,
\* its mapping and its length N never change again, under any interleaving of
\* the threads' first calls.
C15_InitializedStep ==
  arenas_initialized =>
    /\ arenas_initialized'
    /\ arenas' = arenas /\ num_arenas' = num_arenas
    /\ Len(table') = num_arenas
    /\ IsMapping(maps', arenas')

C15_TableWrittenOnce == [][C15_InitializedStep]_vars

\* both threads made their first call and were served
C15_BothThreadsServed ==
  /\ arenas_initialized
  /\ \A t \in Threads : thread_arena_index[t] # -1

\* C16: if a mapping or the mutex creation fails while arena i is initialized,
\* every mapping created so far is released, only addresses of mappings that
\* were created are unmapped, arenas_initialized stays false and the
\* tinymalloc that triggered the initialization returns NULL.
C16_FailedInitReleasesAll ==
  (log # << >> /\ Last.op = "malloc" /\ Last.arena = -1
     /\ Last.failed # "none" /\ arenas = NULL)
    => /\ \A s \in Slots : maps[s] = 0
       /\ Last.invalid = {}
       /\ ~arenas_initialized
       /\ Last.ret = NULL

\* C17: a request of at most LARGE_ALLOCATION_THRESHOLD bytes is served by the
\* calling thread's assigned arena, from that arena's heap, and a thread's
\* assigned arena index never changes once it is set.
C17_OwnArenaStep ==
  \A t \in Threads :
    /\ thread_arena_index[t] # -1 => thread_arena_index'[t] = thread_arena_index[t]
    /\ (Unlocks(t) /\ pc[t] = "malloc" /\ ULe(arg[t], LARGE_ALLOCATION_THRESHOLD)
          /\ Last'.arena # -1)
         => /\ Last'.arena = thread_arena_index'[t]
            /\ Last'.ret # NULL =>
                  LET a == table'[Last'.arena + 1]
                  IN a.heap <= Last'.ret /\ Last'.ret < a.heap + a.heap_size

C17_SmallFromOwnArena == [][C17_OwnArenaStep]_vars

\* the thread assigned arena 1 was served a small request
C17_SecondArenaServedSmall ==
  \E k \in 1 .. Len(log) :
    /\ log[k].op = "malloc" /\ log[k].ret # NULL
    /\ 0 < log[k].arg /\ log[k].arg <= LARGE_ALLOCATION_THRESHOLD
    /\ log[k].arena = 1 /\ thread_arena_index[log[k].t] = 1

\* the threads that have an assigned arena
Assigned == {t \in Threads : thread_arena_index[t] # -1}

\* the tinymalloc calls with a non-zero size that returned, as positions of log
NonZeroCalls(t) ==
  {k \in 1 .. Len(log) : log[k].t = t /\ log[k].op = "malloc" /\ log[k].arg # 0}

\* the small requests that were served, as positions of log
SmallServed ==
  {k \in 1 .. Len(log) :
     /\ log[k].op = "malloc" /\ log[k].ret # NULL
     /\ ULe(log[k].arg, LARGE_ALLOCATION_THRESHOLD)}

\* C18 as stated: the k-th thread (k = 0, 1, ...) to make its first non-zero
\* tinymalloc call is assigned arena k mod N, and next_arena_index stays in
\* [0, N).  (While log holds every call that returned, the order of the first
\* calls is the order of their entries: a call holds malloc_mutex from its
\* start to its return.)
C18_KthCallerGetsKModN ==
  (Len(log) = Returns) =>
    \A t \in Assigned :
      /\ NonZeroCalls(t) # {}
      /\ thread_arena_index[t]
           = Cardinality({u \in Threads : /\ NonZeroCalls(u) # {}
                                          /\ Min(NonZeroCalls(u)) < Min(NonZeroCalls(t))})
               % num_arenas
      /\ 0 <= next_arena_index /\ next_arena_index < num_arenas

\* C18: the k-th thread (k = 0, 1, ...) whose non-zero tinymalloc call gets
\* past the initialization to select_arena is assigned arena k mod N, under any
\* interleaving; next_arena_index is the number of assigned threads mod N, in
\* [0, N); as long as there are no more threads than arenas, no two threads
\* share an arena, so with N >= 2 the small requests of two threads are served
\* from two arenas.
C18_RoundRobinStep ==
  /\ \A t \in Threads :
       (thread_arena_index[t] = -1 /\ thread_arena_index'[t] # -1)
         => thread_arena_index'[t] = Cardinality(Assigned) % num_arenas'
  /\ Assigned' # {} =>
       /\ next_arena_index' = Cardinality(Assigned') % num_arenas'
       /\ 0 <= next_arena_index' /\ next_arena_index' < num_arenas'
  /\ Cardinality(Assigned') <= num_arenas' =>
       /\ \A t, u \in Assigned' :
            t # u => thread_arena_index'[t] # thread_arena_index'[u]
       /\ \A j, k \in SmallServed' :
            log'[j].t # log'[k].t => log'[j].arena # log'[k].arena

C18_RoundRobin == [][C18_RoundRobinStep]_vars

\* two threads were served small requests, from two arenas
C18_TwoThreadsTwoArenas ==
  \E j, k \in SmallServed :
    log[j].t # log[k].t /\ log[j].arena # log[k].arena

\* the bytes arena i (1 .. N) counts as used, and the arenas with room for size
Usage(i) == table[i].allocated_blocks * BLOCK_SIZE
WithRoom(size) ==
  {i \in 1 .. Len(table) : size >= 0 /\ table[i].heap_size - Usage(i) >= size}

\* C19: a request of more than LARGE_ALLOCATION_THRESHOLD bytes selects an arena
\* with the least allocated_blocks * BLOCK_SIZE among the arenas that have room
\* (heap_size - usage >= size), and arena 0 if no arena has room.
C19_LeastUsedStep ==
  \A t \in Threads :
    (Unlocks(t) /\ pc[t] = "malloc" /\ arenas_initialized
       /\ ~ULe(arg[t], LARGE_ALLOCATION_THRESHOLD))
      => IF WithRoom(arg[t]) = {} THEN Last'.arena = 0
         ELSE /\ Last'.arena + 1 \in WithRoom(arg[t])
              /\ \A j \in WithRoom(arg[t]) : Usage(Last'.arena + 1) <= Usage(j)

C19_LargeFromLeastUsed == [][C19_LeastUsedStep]_vars

\* ptr lies in the current heap range of arena i (1 .. N)
InHeap(i, ptr) ==
  table[i].heap <= ptr /\ ptr < table[i].heap + table[i].heap_size

\* C20: with at least two arenas, a thread that is served HEAP_SIZE / 2 bytes
\* and next 100 bytes holds two pointers that lie in the heap regions of two
\* different arenas.
C20_LargeAndSmallApart ==
  (/\ Len(log) >= 2 /\ num_arenas >= 2
   /\ Before(1).op = "malloc" /\ Before(1).arg = HEAP_SIZE \div 2
   /\ Before(1).ret # NULL
   /\ Last.op = "malloc" /\ Last.arg = 100 /\ Last.ret # NULL
   /\ Last.t = Before(1).t)
    => /\ Last.arena # Before(1).arena
       /\ \E i, j \in 1 .. Len(table) :
            i # j /\ InHeap(i, Before(1).ret) /\ InHeap(j, Last.ret)

\* ceil(a / b) for a >= 0
CeilDiv(a, b) == (a + b - 1) \div b

\* every bit of the block run of the live allocation l is 1 in the bitmap of
\* the arena that served it
RunIsSet(l) ==
  \E r \in table[l.arena + 1].bits : r[1] <= l.start /\ l.start + l.blocks <= r[2]

\* C21: every live allocation occupies, in the bitmap of its arena, as many bits
\* as ceil((size + sizeof(size_t)) / BLOCK_SIZE) for the size stored in its
\* header, which is the size the caller asked for; tinymalloc(1) occupies one
\* block.
C21_BitsMatchHeader ==
  \A l \in live :
    /\ ReadWord(table[l.arena + 1].mem, l.start * BLOCK_SIZE) = l.size
    /\ l.size >= 0
    /\ l.blocks = CeilDiv(l.size + SIZEOF_SIZE_T, BLOCK_SIZE)
    /\ l.size = 1 => l.blocks = 1
    /\ RunIsSet(l)

\* C22: the pointer and the block run of every live allocation lie inside the
\* current heap region of exactly one arena, the one that served it, also when
\* that arena's heap was replaced by a growth after the allocation.
C22_LiveInsideOneHeap ==
  \A l \in live :
    /\ Cardinality({i \in 1 .. Len(table) : InHeap(i, l.ptr)}) = 1
    /\ InHeap(l.arena + 1, l.ptr)
    /\ LET a == table[l.arena + 1]
       IN /\ a.heap + l.start * BLOCK_SIZE <= l.ptr
          /\ l.ptr <= a.heap + (l.start + l.blocks) * BLOCK_SIZE
          /\ (l.start + l.blocks) * BLOCK_SIZE <= a.heap_size

\* ---- find_free_blocks on its own ------------------------------------------
\* The bitmaps of one arena of HEAP_SIZE bytes that has not grown.  Seven
\* allocations made in this order on an empty arena occupy the block runs of
\* ScanRuns one after the other (each starts at the first zero bit of a word
\* of the scanned part); freeing any of them leaves any union of the runs.
ScanRuns == {<<0, 1>>, <<1, 2>>, <<2, 64>>, <<64, 65>>, <<65, 128>>,
             <<128, 8191>>, <<8191, 32768>>}

\* The values of blocks_needed: small, medium and large requests, the largest
\* that fit the heap and the first that does not.
ScanBlocks == {1, 2, 7, 62, 64, 65, 57345, 57346, 65536, 65537}

RECURSIVE MarkRuns(_)
MarkRuns(S) ==
  IF S = {} THEN {}
  ELSE LET r == CHOOSE x \in S : TRUE
       IN SetRange(MarkRuns(S \ {r}), r[1], r[2])

ScanArena(S) ==
  [ZeroArena EXCEPT !.heap = SlotBase(1), !.heap_size = HEAP_SIZE,
                    !.bitmap = SlotBase(2),
                    !.bitmap_size = BitmapWords(HEAP_SIZE),
                    !.bits = MarkRuns(S),
                    !.mutex = pthread_mutex_init(@)]

InitScan ==
  /\ \E S \in SUBSET ScanRuns : table = <<ScanArena(S)>>
  /\ arenas = SlotBase(0)
  /\ num_arenas = 1
  /\ arenas_initialized = TRUE
  /\ next_arena_index = 0
  /\ malloc_mutex = 0
  /\ arena_index_mutex = "unlocked"
  /\ thread_arena_index = [t \in Threads |-> -1]
  /\ maps = [s \in Slots |-> IF s = 0 THEN SIZEOF_ARENA
                             ELSE IF s = 1 THEN HEAP_SIZE
                             ELSE IF s = 2 THEN BitmapWords(HEAP_SIZE) * SIZEOF_UINT64
                             ELSE 0]
  /\ pc = [t \in Threads |-> "idle"]
  /\ arg = [t \in Threads |-> 0]
  /\ live = {}
  /\ ops = 0
  /\ limit = 1
  /\ log = << >>
  /\ crashed = FALSE

\* size_t start_block = find_free_blocks(allocator, blocks_needed)
FindFreeBlocks(blocks_needed) ==
  /\ ops < limit
  /\ ops' = ops + 1
  /\ log' = Logged([op |-> "find_free_blocks", t |-> 1, arg |-> blocks_needed,
                    ret |-> find_free_blocks(table[1], blocks_needed),
                    arena |-> 0, failed |-> "none", invalid |-> {}])
  /\ UNCHANGED <<alloc_state, pc, arg, live, limit, crashed>>

NextScan == \E blocks_needed \in ScanBlocks : FindFreeBlocks(blocks_needed)

SpecScan == InitScan /\ [][NextScan]_vars

\* find_free_blocks has returned
Scanned == Len(log) > 0 /\ Last.op = "find_free_blocks"

\* the bits lo .. hi-1 are all 0
AllZero(bits, lo, hi) == \A r \in bits : ~(r[1] < hi /\ lo < r[2])

\* C23: when find_free_blocks(n), n >= 1, returns a start other than SIZE_MAX,
\* the n bits from start on are all zero and start + n does not exceed the
\* heap's block count, whatever the bitmap holds.
C23_ReturnedRunIsFree ==
  (Scanned /\ Last.arg >= 1 /\ Last.ret # SIZE_MAX) =>
     /\ Last.ret >= 0
     /\ AllZero(table[1].bits, Last.ret, Last.ret + Last.arg)
     /\ Last.ret + Last.arg <= table[1].heap_size \div BLOCK_SIZE

\* a run of several blocks was found past blocks that are in use
C23_RunFoundPastUsedBlocks ==
  /\ Scanned /\ Last.arg > 1 /\ Last.ret # SIZE_MAX /\ Last.ret > 0
  /\ \E r \in table[1].bits : Last.ret + Last.arg <= r[1]

\* The reference search: the smallest block index s whose n bits s .. s+n-1
\* are all zero with s + n inside the heap, SIZE_MAX when there is none.  The
\* smallest such s is 0 or the block after a run of 1 bits.
FirstFit(al, n) ==
  LET starts == {s \in {0} \cup {r[2] : r \in al.bits} :
                   /\ AllZero(al.bits, s, s + n)
                   /\ s + n <= al.heap_size \div BLOCK_SIZE}
  IN IF starts = {} THEN SIZE_MAX ELSE Min(starts)

\* C24: find_free_blocks(n) returns the smallest block index whose n bits are
\* all zero and fit the heap, as an exhaustive first-fit search finds it.
C24_ReturnsFirstFit ==
  Scanned => Last.ret = FirstFit(table[1], Last.arg)

\* C25: find_free_blocks looks at every word of the bitmap: it returns
\* SIZE_MAX only if no word 0 .. bitmap_size-1 has a zero bit whose run of n
\* blocks is free and inside the heap.
C25_SizeMaxOnlyIfNoWordFits ==
  (Scanned /\ Last.ret = SIZE_MAX) =>
     \A bitmap_index \in 0 .. (table[1].bitmap_size - 1) :
        ~Fits(table[1], Last.arg, bitmap_index)

\* this step is a tinymalloc in which extend_heap succeeded on arenas[i - 1]
Grows(i) ==
  /\ i <= Len(table) /\ Len(table') = Len(table)
  /\ table'[i].heap_size > table[i].heap_size

\* the allocation this step returned, if it returned one
Made == live' \ live

\* C26: a successful extend_heap keeps the value of every bit the bitmap had
\* (the bits of live allocations stay 1), leaves the bits of the added blocks
\* 0, makes heap_size larger and keeps the old heap's bytes at their offsets.
\* So after the tinymalloc that grew the heap the bitmap is the old bitmap plus
\* the run of the new allocation, and the old headers are in place.
C26_GrowthStep ==
  \A i \in 1 .. Len(table) :
    Grows(i) =>
      /\ table'[i].bits =
           IF Made = {} THEN table[i].bits
           ELSE LET l == CHOOSE x \in Made : TRUE
                IN SetRange(table[i].bits, l.start, l.start + l.blocks)
      /\ \A w \in table[i].mem :
           w \in table'[i].mem \/ \E l \in Made : w[1] = l.start * BLOCK_SIZE
C26_GrowthKeepsBitmap == [][C26_GrowthStep]_vars

\* the thread whose tinymalloc returns in this step asked for size bytes
MallocOf(size) ==
  \E t \in Threads : pc[t] = "malloc" /\ pc'[t] = "idle" /\ arg[t] = size

\* C27: when try_allocate finds no free run, the heap grows by
\* max(blocks_needed * BLOCK_SIZE, heap_size / 4) rounded up to a multiple of
\* the page size, the bitmap gets ceil(new_heap_size / BLOCK_SIZE / 64) words,
\* and the second find_free_blocks finds a run: the call returns a pointer.
C27_GrowthStep ==
  \A i \in 1 .. Len(table) :
    Grows(i) =>
      \E size \in Sizes :
        /\ MallocOf(size)
        /\ LET blocks_needed == CeilDiv(size + SIZEOF_SIZE_T, BLOCK_SIZE)
               wanted == Max({blocks_needed * BLOCK_SIZE, table[i].heap_size \div 4})
               grown == table'[i].heap_size - table[i].heap_size
           IN /\ grown % PAGE_SIZE = 0
              /\ wanted <= grown /\ grown < wanted + PAGE_SIZE
              /\ table'[i].bitmap_size =
                   CeilDiv(table'[i].heap_size, BLOCK_SIZE * WORD_BITS)
              /\ \E l \in Made : l.size = size /\ l.arena = i - 1
              /\ log'[Len(log')].ret # NULL
C27_GrowthIsSizedAndServes == [][C27_GrowthStep]_vars

\* both sizes of growth happened: a quarter of the heap for a one-byte request
\* and the request's own blocks for HEAP_SIZE bytes
C27_GrownByQuarterAndByRequest ==
  /\ arenas_initialized
  /\ \E i \in 1 .. Len(table) :
       /\ table[i].heap_size = HEAP_SIZE + HEAP_SIZE \div 4
       /\ \E l \in live : l.arena = i - 1 /\ l.size = 1 /\ l.start > 0
  /\ \E i \in 1 .. Len(table) :
       /\ table[i].heap_size > 2 * HEAP_SIZE
       /\ \E l \in live : l.arena = i - 1 /\ l.size = HEAP_SIZE

\* this step is a tinymalloc of thread t, on initialised arenas, in which an
\* mmap of extend_heap failed
ExtendFails(t) ==
  /\ pc[t] = "malloc" /\ pc'[t] = "idle"
  /\ arenas_initialized
  /\ log'[Len(log')].failed = "mmap"

\* C28: when an mmap inside extend_heap fails, tinymalloc returns NULL, the
\* arena's heap and bitmap pointers, heap_size, bitmap_size, bitmap contents
\* and allocated_blocks are what they were, and the global mutex is released.
C28_FailedGrowthStep ==
  \A t \in Threads :
    ExtendFails(t) =>
      /\ log'[Len(log')].ret = NULL
      /\ table' = table
      /\ arenas' = arenas /\ num_arenas' = num_arenas
      /\ live' = live
      /\ malloc_mutex = t /\ malloc_mutex' = 0
C28_FailedGrowthChangesNothing == [][C28_FailedGrowthStep]_vars

\* a tinymalloc whose extend_heap failed has returned, on an arena that holds
\* a live allocation
C28_GrowthFailedOnUsedArena ==
  /\ Len(log) >= 2
  /\ Last.op = "malloc" /\ Last.failed = "mmap" /\ Last.ret = NULL
  /\ Before(1).op = "malloc" /\ Before(1).ret # NULL
  /\ \E l \in live : l.arena = Last.arena /\ RunIsSet(l)
  /\ malloc_mutex = 0

\* the slots of the address space that hold a mapping
MappedIn(m) == {s \in Slots : m[s] # 0}

\* C29: after a successful extend_heap the arena owns one heap mapping and one
\* bitmap mapping: the old heap and the old bitmap are unmapped, the new ones
\* are mapped, and nothing else mapped during the call stays mapped, so the
\* process holds as many mappings as before.
C29_GrowthStep ==
  \A i \in 1 .. Len(table) :
    Grows(i) =>
      /\ maps'[SlotOf(table[i].heap)] = 0
      /\ maps'[SlotOf(table[i].bitmap)] = 0
      /\ maps'[SlotOf(table'[i].heap)] = table'[i].heap_size
      /\ maps'[SlotOf(table'[i].bitmap)] = table'[i].bitmap_size * SIZEOF_UINT64
      /\ Cardinality(MappedIn(maps')) = Cardinality(MappedIn(maps))
C29_GrowthLeavesTwoMappings == [][C29_GrowthStep]_vars

\* C30: tinyfree(p) of a live pointer p clears the bits of p's block run in the
\* bitmap of the arena that allocated p, changes no other bit of that bitmap
\* and nothing in another arena, also when the arena's heap grew after p was
\* allocated.
C30_FreeStep ==
  \A t \in Threads :
    (pc[t] = "free" /\ pc'[t] = "idle") =>
      \A l \in Released(arg[t]) :
        /\ table'[l.arena + 1].bits =
             ClearRange(table[l.arena + 1].bits, l.start, l.start + l.blocks)
        /\ \A j \in 1 .. Len(table) : j # l.arena + 1 => table'[j] = table[j]
C30_FreeClearsOwnRunOnly == [][C30_FreeStep]_vars

\* arenas[i - 1].allocated_blocks, 0 before the table exists
Counter(tbl, i) == IF i <= Len(tbl) THEN tbl[i].allocated_blocks ELSE 0

\* C31: a successful tinymalloc(size) adds ceil((size + sizeof(size_t)) /
\* BLOCK_SIZE) to the allocated_blocks of the arena it selected, once; a
\* tinymalloc that returns NULL, and every call that works on another arena,
\* leave an arena's counter as it was.
C31_CounterStep ==
  \A i \in 1 .. Len(table') :
    LET here == {l \in Made : l.arena = i - 1}
    IN IF here = {}
       THEN Counter(table', i) = Counter(table, i)
       ELSE \A l \in here :
              /\ log'[Len(log')].op = "malloc" /\ log'[Len(log')].ret = l.ptr
              /\ Counter(table', i) =
                   Counter(table, i) + CeilDiv(l.size + SIZEOF_SIZE_T, BLOCK_SIZE)
C31_CountedOncePerAllocation == [][C31_CounterStep]_vars

\* two allocations were counted on one arena while the other arena's counter
\* stayed 0, and the last tinymalloc returned NULL
C31_TwoCountedOneFailed ==
  /\ Len(log) >= 1 /\ Last.op = "malloc" /\ Last.arg # 0 /\ Last.ret = NULL
  /\ Len(table) >= 2
  /\ \E i, j \in 1 .. Len(table) :
       /\ table[j].allocated_blocks = 0
       /\ Cardinality({l \in live : l.arena = i - 1}) = 2
       /\ table[i].allocated_blocks =
            CeilDiv(HEAP_SIZE \div 2 + SIZEOF_SIZE_T, BLOCK_SIZE) + 1

\* the number of 1 bits of a bitmap
RECURSIVE SetBits(_)
SetBits(bits) ==
  IF bits = {} THEN 0
  ELSE LET r == CHOOSE x \in bits : TRUE
       IN (r[2] - r[1]) + SetBits(bits \ {r})

\* C32: tinyfree(p) of a live allocation takes the blocks it frees off the
\* allocated_blocks of the arena that owns p, so the counter read by
\* select_arena is 0 again when nothing is live.
C32_FreeStep ==
  \A t \in Threads :
    (pc[t] = "free" /\ pc'[t] = "idle") =>
      \A l \in Released(arg[t]) :
        /\ Counter(table', l.arena + 1) = Counter(table, l.arena + 1) - l.blocks
        /\ live' = {} => \A i \in 1 .. Len(table') :
                            /\ table'[i].allocated_blocks = 0
                            /\ table'[i].allocated_blocks = SetBits(table'[i].bits)
C32_FreeUncountsBlocks == [][C32_FreeStep]_vars

\* C33: in every reachable state the usage select_arena computes for an arena,
\* allocated_blocks * BLOCK_SIZE, is at most the arena's heap_size, so
\* heap_size - usage does not wrap, and allocated_blocks lies between 0 and the
\* heap's block count.
C33_UsageWithinHeap ==
  \A i \in 1 .. Len(table) :
    /\ 0 <= table[i].allocated_blocks
    /\ table[i].allocated_blocks <= table[i].heap_size \div BLOCK_SIZE
    /\ table[i].allocated_blocks * BLOCK_SIZE <= table[i].heap_size

\* ---- double free ------------------------------------------------------------
\* One thread allocates, frees what it got, and may pass the pointer it has
\* just freed to tinyfree again.
MaxDoubleOps == 5
DoubleSizes == {1, HEAP_SIZE \div 2}

InitDouble == Start /\ limit = MaxDoubleOps

\* the pointer of the most recent call, if that call was a tinyfree
LastFreed == IF Len(log) > 0 /\ Last.op = "free" THEN {Last.arg} ELSE {}

NextDouble ==
  \/ \E size \in DoubleSizes : MallocLock(1, size)
  \/ MallocInitFails(1)
  \/ MallocBody(1)
  \/ \E ptr \in LivePtrs \cup LastFreed : FreeLock(1, ptr)
  \/ FreeBody(1)

SpecDouble == InitDouble /\ [][NextDouble]_vars

\* thread t's tinyfree returns in this step, of a pointer that is not live and
\* that the call before, a tinyfree, was given as well
SecondFree(t) ==
  /\ pc[t] = "free" /\ pc'[t] = "idle"
  /\ arg[t] \notin LivePtrs
  /\ arg[t] \in LastFreed

\* C34: a second tinyfree(p) of a pointer that was freed, with no allocation in
\* between, leaves every bitmap as the first tinyfree(p) left it: no bit inside
\* or outside p's former run changes.
C34_SecondFreeStep ==
  \A t \in Threads :
    SecondFree(t) => \A i \in 1 .. Len(table) : table'[i].bits = table[i].bits
C34_DoubleFreeKeepsBitmap == [][C34_SecondFreeStep]_vars

\* p was allocated, freed, and freed again, and both frees found p's arena,
\* which holds another live allocation
C34_FreedTwiceInItsArena ==
  /\ Len(log) >= 3
  /\ Before(2).op = "malloc" /\ Before(2).ret # NULL
  /\ Before(1).op = "free" /\ Before(1).arg = Before(2).ret
  /\ Last.op = "free" /\ Last.arg = Before(2).ret
  /\ Last.arena = Before(2).arena /\ Before(1).arena = Before(2).arena
  /\ \E l \in live : l.arena = Last.arena /\ RunIsSet(l)

\* ---- tinyfree of a pointer to the first bytes of a heap ------------------------
\* One thread allocates, and passes to tinyfree the pointers it got and the
\* base addresses of the arenas' heaps.
MaxStrayOps == 4
StraySizes == {1, HEAP_SIZE \div 2}

InitStray == Start /\ limit = MaxStrayOps

HeapBases ==
  IF arenas_initialized THEN {table[i].heap : i \in 1 .. Len(table)} ELSE {}

NextStray ==
  \/ \E size \in StraySizes : MallocLock(1, size)
  \/ MallocInitFails(1)
  \/ MallocBody(1)
  \/ \E ptr \in LivePtrs \cup HeapBases : FreeLock(1, ptr)
  \/ FreeHeaderCrash(1)
  \/ FreeBody(1)

SpecStray == InitStray /\ [][NextStray]_vars

\* the checks the release of ptr in arena ar is to fail: the header address
\* lies outside [heap, heap + heap_size), or the run computed from the header
\* ends beyond the heap's last block
OutOfRange(ar, ptr) ==
  LET header_addr == ptr - SIZEOF_SIZE_T
  IN \/ header_addr < ar.heap
     \/ header_addr >= ar.heap + ar.heap_size
     \/ CDiv(header_addr - ar.heap, BLOCK_SIZE)
          + CeilDiv(ReadWord(ar.mem, header_addr - ar.heap) + SIZEOF_SIZE_T, BLOCK_SIZE)
        > ar.heap_size \div BLOCK_SIZE

\* C35: a tinyfree whose header address lies outside the owning arena's heap
\* region, or whose start + blocks exceeds heap_size / BLOCK_SIZE, is a
\* no-op: no bit is cleared, no counter changes, and no header is read from
\* outside the heap region.
C35_OutOfRangeStep ==
  \A t \in Threads :
    (/\ pc[t] = "free"
     /\ find_arena_for_pointer(arg[t]) # -1
     /\ OutOfRange(table[find_arena_for_pointer(arg[t]) + 1], arg[t]))
    => /\ table' = table
       /\ crashed' = crashed
       /\ pc'[t] = "idle" => log'[Len(log')].invalid = {}
C35_OutOfRangeFreeIsNoOp == [][C35_OutOfRangeStep]_vars

\* thread t returns from tinymalloc or tinyfree in this step: after the work
\* under the lock, or at once for size 0 and for a NULL pointer
ReturnsFrom(t) ==
  \/ Unlocks(t)
  \/ /\ pc[t] = "idle" /\ pc'[t] = "idle" /\ ops' = ops + 1
     /\ log' # log /\ log'[Len(log')].t = t

\* C36: on every return path of tinymalloc and tinyfree the returning thread
\* holds neither malloc_mutex nor arena_index_mutex nor the mutex of an arena.
C36_ReturnStep ==
  \A t \in Threads :
    ReturnsFrom(t) =>
      /\ malloc_mutex' # t
      /\ arena_index_mutex' = "unlocked"
      /\ \A i \in 1 .. Len(table') : table'[i].mutex \in {"zeroed", "unlocked"}
C36_ReturnsHoldNoMutex == [][C36_ReturnStep]_vars

\* a tinymalloc that succeeded, a tinymalloc whose growth failed and a
\* tinyfree of a pointer no arena owns have returned, and no mutex is held
C36_ThreePathsReturned ==
  /\ Len(log) = 3
  /\ Before(2).op = "malloc" /\ Before(2).ret # NULL
  /\ Before(1).op = "malloc" /\ Before(1).ret = NULL /\ Before(1).arena # -1
  /\ Before(1).failed = "mmap"
  /\ Last.op = "free" /\ Last.arg # NULL /\ Last.arena = -1
  /\ \A t \in Threads : pc[t] = "idle"
  /\ malloc_mutex = 0 /\ arena_index_mutex = "unlocked"

\* thread t's tinymalloc returns NULL in this step because initialization
\* failed
InitFailsFor(t) ==
  /\ pc[t] = "malloc" /\ pc'[t] = "idle"
  /\ log'[Len(log')].ret = NULL /\ log'[Len(log')].arena = -1
  /\ log'[Len(log')].failed # "none"

\* C37: after a tinymalloc whose initialization failed the allocator is
\* uninitialized again: no arena table, num_arenas = 0, arenas_initialized
\* false; so a tinyfree of any pointer is a no-op and does not fault, and a
\* later tinymalloc runs the initialization again.
C37_FailedInitStep ==
  /\ \A t \in Threads :
       InitFailsFor(t) =>
         /\ arenas' = NULL /\ table' = NoTable
         /\ num_arenas' = 0
         /\ arenas_initialized' = FALSE
  /\ \A t \in Threads :
       (pc[t] = "free" /\ ~arenas_initialized) =>
         (~crashed' /\ UNCHANGED <<arenas, table, num_arenas, arenas_initialized, maps>>)
C37_FailedInitResets == [][C37_FailedInitStep]_vars

\* ---- the benchmark baseline: tinymalloc_old and tinyfree_old ----------------
\* allocator_old is table[1], allocator_initialized_old is arenas_initialized.
\* One thread calls tinymalloc_old with the sizes of OldSizes and tinyfree_old
\* with NULL and the pointers it got.
MaxOldOps == 3
OldSizes == {0, 1, 16, HEAP_SIZE}

\* size_t blocks_needed = (size + BLOCK_SIZE - 1) / BLOCK_SIZE
blocks_needed_old(size) == (size + BLOCK_SIZE - 1) \div BLOCK_SIZE

\* The outcomes of init_allocator_old: [al, maps, ok].
init_allocator_old(al, m) ==
  UNION {
    IF mh.addr = MAP_FAILED
    THEN {[al |-> [al EXCEPT !.heap_size = HEAP_SIZE, !.heap = MAP_FAILED],
           maps |-> mh.maps, ok |-> FALSE]}
    ELSE { LET a == [al EXCEPT !.heap_size = HEAP_SIZE, !.heap = mh.addr,
                               !.bitmap_size = BitmapWords(HEAP_SIZE),
                               !.bitmap = mb.addr,
                               !.bits = {}, !.mem = {}]
           IN IF mb.addr = MAP_FAILED
              THEN [al |-> a, maps |-> munmap(mb.maps, mh.addr), ok |-> FALSE]
              ELSE [al |-> a, maps |-> mb.maps, ok |-> TRUE]
         : mb \in mmap(mh.maps, BitmapWords(HEAP_SIZE) * SIZEOF_UINT64) }
    : mh \in mmap(m, HEAP_SIZE) }

\* extend_heap_old is extend_heap under another name, statement by statement.
extend_heap_old(al, size, m) == extend_heap(al, size, m)

\* The candidate bit of a word: the shift loop for small and large sizes,
\* ffs - 1 for the others; the test is on the size in bytes.
first_free_bit_old(bits, bitmap_index, size) ==
  IF size <= SMALL_ALLOCATION_THRESHOLD \/ size >= LARGE_ALLOCATION_THRESHOLD
  THEN ctzll(bits, bitmap_index)
  ELSE ffsll(bits, bitmap_index) - 1

start_block_old(al, size, bitmap_index) ==
  bitmap_index * WORD_BITS + first_free_bit_old(al.bits, bitmap_index, size)

\* One turn of a scan loop of tinymalloc_old.
FitsOld(al, size, bitmap_index) ==
  /\ LowestZero(al.bits, bitmap_index) # WORD_BITS
  /\ LET start_block == start_block_old(al, size, bitmap_index)
         end_block == start_block + blocks_needed_old(size)
     IN /\ end_block <= al.heap_size \div BLOCK_SIZE
        /\ EnoughSpace(al.bits, start_block, end_block)

\* The scan of the words from .. bitmap_size-1: the start block of the first
\* word that fits, SIZE_MAX when the loop ends.
ScanOld(al, size, from) ==
  LET hits == {w \in from .. (al.bitmap_size - 1) : FitsOld(al, size, w)}
  IN IF hits = {} THEN SIZE_MAX ELSE start_block_old(al, size, Min(hits))

\* set_bit_old for the run, the header, the pointer returned
MarkOld(al, m, start_block, size) ==
  LET allocated_memory == AlignUp(al.heap + start_block * BLOCK_SIZE)
  IN [al |-> [al EXCEPT
                !.bits = SetRange(@, start_block,
                                  start_block + blocks_needed_old(size)),
                !.mem = WriteWord(@, allocated_memory - al.heap, size)],
      maps |-> m, initialized |-> TRUE,
      ret |-> allocated_memory + SIZEOF_SIZE_T,
      start |-> start_block, blocks |-> blocks_needed_old(size),
      failed |-> "none"]

NullOld(al, m, initialized, failed) ==
  [al |-> al, maps |-> m, initialized |-> initialized, ret |-> NULL,
   start |-> 0, blocks |-> 0, failed |-> failed]

\* tinymalloc_old once the allocator is initialized
AllocOld(al, size, m) ==
  LET first == ScanOld(al, size, 0)
      blocks_needed == blocks_needed_old(size)
      extension_size ==
        IF blocks_needed * BLOCK_SIZE > al.heap_size \div 4
        THEN blocks_needed * BLOCK_SIZE
        ELSE al.heap_size \div 4
  IN IF first # SIZE_MAX THEN {MarkOld(al, m, first, size)}
     ELSE { IF e.ret = NULL THEN NullOld(e.al, e.maps, TRUE, "mmap")
            ELSE LET start_bitmap_index ==
                       (e.al.heap_size - extension_size) \div (BLOCK_SIZE * 64)
                     again == ScanOld(e.al, size, start_bitmap_index)
                 IN IF again = SIZE_MAX THEN NullOld(e.al, e.maps, TRUE, "none")
                    ELSE MarkOld(e.al, e.maps, again, size)
          : e \in extend_heap_old(al, extension_size, m) }

\* The outcomes of tinymalloc_old(size).
tinymalloc_old(al, initialized, size, m) ==
  IF size = 0 THEN {NullOld(al, m, initialized, "none")}
  ELSE IF initialized THEN AllocOld(al, size, m)
  ELSE UNION { IF i.ok THEN AllocOld(i.al, size, i.maps)
               ELSE {NullOld(i.al, i.maps, FALSE, "mmap")}
             : i \in init_allocator_old(al, m) }

\* The run tinyfree_old(ptr) clears: <<block_index, block_index +
\* blocks_to_free>>, and <<0, 0>> when it returns early.
FreedRunOld(al, ptr) ==
  LET actual_start == ptr - SIZEOF_SIZE_T
      size == ReadWord(al.mem, actual_start - al.heap)
      block_index == CDiv(actual_start - al.heap, BLOCK_SIZE)
      blocks_to_free == (size + SIZEOF_SIZE_T + BLOCK_SIZE - 1) \div BLOCK_SIZE
  IN IF ptr = NULL THEN <<0, 0>>
     ELSE IF actual_start < al.heap \/ actual_start >= al.heap + al.heap_size
     THEN <<0, 0>>
     ELSE IF block_index + blocks_to_free > al.heap_size \div BLOCK_SIZE
     THEN <<0, 0>>
     ELSE <<block_index, block_index + blocks_to_free>>

tinyfree_old(al, ptr) ==
  [al EXCEPT !.bits = ClearRange(@, FreedRunOld(al, ptr)[1], FreedRunOld(al, ptr)[2])]

MallocOld(size) ==
  /\ ops < limit
  /\ \E o \in tinymalloc_old(table[1], arenas_initialized, size, maps) :
       /\ table' = <<o.al>>
       /\ arenas_initialized' = o.initialized
       /\ maps' = o.maps
       /\ live' = IF o.ret = NULL THEN live
                  ELSE live \cup {[ptr |-> o.ret, size |-> size, arena |-> 0,
                                   start |-> o.start, blocks |-> o.blocks,
                                   id |-> FreshId]}
       /\ log' = Logged([op |-> "malloc_old", t |-> 1, arg |-> size,
                         ret |-> o.ret, arena |-> 0, failed |-> o.failed,
                         invalid |-> {}])
  /\ ops' = ops + 1
  /\ UNCHANGED <<arenas, num_arenas, next_arena_index, malloc_mutex,
                 arena_index_mutex, thread_arena_index, pc, arg, limit, crashed>>

FreeOld(ptr) ==
  /\ ops < limit
  /\ table' = <<tinyfree_old(table[1], ptr)>>
  /\ live' = live \ Released(ptr)
  /\ log' = Logged([op |-> "free_old", t |-> 1, arg |-> ptr, ret |-> NULL,
                    arena |-> 0, failed |-> "none", invalid |-> {}])
  /\ ops' = ops + 1
  /\ UNCHANGED <<arenas, num_arenas, arenas_initialized, next_arena_index,
                 malloc_mutex, arena_index_mutex, thread_arena_index, maps, pc,
                 arg, limit, crashed>>

InitOld ==
  /\ arenas = NULL
  /\ table = <<ZeroArena>>
  /\ num_arenas = 0
  /\ arenas_initialized = FALSE
  /\ next_arena_index = 0
  /\ malloc_mutex = 0
  /\ arena_index_mutex = "unlocked"
  /\ thread_arena_index = [t \in Threads |-> -1]
  /\ maps = [s \in Slots |-> 0]
  /\ pc = [t \in Threads |-> "idle"]
  /\ arg = [t \in Threads |-> 0]
  /\ live = {}
  /\ ops = 0
  /\ limit = MaxOldOps
  /\ log = << >>
  /\ crashed = FALSE

NextOld ==
  \/ \E size \in OldSizes : MallocOld(size)
  \/ \E ptr \in LivePtrs \cup {NULL} : FreeOld(ptr)

SpecOld == InitOld /\ [][NextOld]_vars

\* C38: in the benchmark baseline the bits tinyfree_old(p) clears are the bits
\* the tinymalloc_old(size) that returned p set, and the bytes [p, p + size)
\* lie inside the blocks reserved for p, for every size >= 1.
C38_OldStep ==
  /\ \A l \in Made :
       /\ table'[1].heap + l.start * BLOCK_SIZE <= l.ptr
       /\ l.ptr + l.size <= table'[1].heap + (l.start + l.blocks) * BLOCK_SIZE
  /\ (log' # log /\ log'[Len(log')].op = "free_old") =>
       \A l \in Released(log'[Len(log')].arg) :
         FreedRunOld(table[1], l.ptr) = <<l.start, l.start + l.blocks>>
C38_OldFreeClearsWhatWasSet == [][C38_OldStep]_vars


=============================================================================
